---- MODULE Spec2Model ----
(***************************************************************************)
(* Model of the package resolver of crates/sui-package-resolver:           *)
(*   cache.rs  PackageCache (LRU of Arc<Package> behind a Mutex, wrapping  *)
(*             a PackageStore)                                             *)
(*   store.rs  DbPackageStore, LocalDBPackageStore, PackageStoreTables,    *)
(*             make_package                                                *)
(* Concurrent callers run PackageCache::package; a step of the model is    *)
(* one access to shared state (the mutex-guarded LRU, the database, the    *)
(* local table, the remote full node) together with the local code that    *)
(* follows it up to the next such access.                                  *)
(***************************************************************************)
EXTENDS Integers, Sequences, FiniteSets, TLC

\* ------------------------------------------------------------------ bounds
NumCallers == 2
NumIds == 2
MaxVersion == 2
\* cache.rs:16 sets the capacity to 1024; the model keeps the name and scales
\* the value down so that the cache fills and evicts.
PACKAGE_CACHE_SIZE == 1

\* make_package on its own (SpecMaterialize): the module names, struct names
\* and addresses of the objects it is given, and the rows of their
\* type-origin tables.
NumModules == 2
NumStructs == 2
NumAddrs == 2
MaxOrigins == 2

\* The LRU on its own (SpecLru): its capacity and the ids asked for.
LruCapacity == 2
NumLruIds == 3

Callers == 1..NumCallers
LruIds == 1..NumLruIds
Ids == 1..NumIds
Versions == 1..MaxVersion

\* ------------------------------------------------------------------ values
NoObject == [id |-> 0, version |-> 0, kind |-> "none"]
Objects == [id : Ids, version : Versions, kind : {"package", "other"}]

NoPackage == [id |-> 0, version |-> 0, inst |-> 0]

\* Result<Object> of a store read, Result<Arc<Package>> of package().
Ok(o) == [ok |-> TRUE, err |-> "", obj |-> o]
Err(e) == [ok |-> FALSE, err |-> e, obj |-> NoObject]
NoResp == [ok |-> FALSE, err |-> "none", obj |-> NoObject]

ROk(p) == [ok |-> TRUE, err |-> "", pkg |-> p]
RErr(e) == [ok |-> FALSE, err |-> e, pkg |-> NoPackage]
NoResult == [ok |-> FALSE, err |-> "none", pkg |-> NoPackage]

\* sui_types::is_system_package: the framework addresses (0x1, ...).
is_system_package(id) == id = 1

VARIABLES
    storeKind,  \* which PackageStore the cache wraps: "db" | "local"
    dbObjects,  \* the indexer database's objects table (database store only)
    table,      \* PackageStoreTables.packages (local store only)
    cache,      \* PackageCache.packages: the LRU, most recently used first
    lock,       \* the Mutex around the LRU: 0 free, else the holding caller
    pc,         \* each caller's position in package()
    io,         \* each caller's position in the store operation it awaits
    callId,     \* the id argument of the caller's current (or last) call
    cand,       \* `candidate` (cache.rs:56) of the current (or last) call
    resp,       \* the object / error the awaited store operation produced
    pkg,        \* `package` (cache.rs:71) of the current (or last) call
    result,     \* what the caller's last call (package or update_store) returned
    nremote,    \* remote fetches made by the store operation the caller awaits
    persisted,  \* the call in flight has written the local table (store.rs:150)
    given,      \* the arguments of a make_package call on its own
    made,       \* what that call returned
    phase       \* each caller's phase of type_layout: "none" | "gather" | "resolve"

vars == <<storeKind, dbObjects, table, cache, lock, pc, io, callId, cand, resp,
          pkg, result, nremote, persisted, given, made, phase>>

callerVars == <<pc, io, callId, cand, resp, pkg, result, nremote, persisted>>

\* --------------------------------------------------------------- LruCache
\* Position of id in the LRU, 0 when absent.
Find(c, id) ==
    IF \E i \in 1..Len(c) : c[i].id = id
    THEN CHOOSE i \in 1..Len(c) : c[i].id = id
    ELSE 0

Without(c, i) == SubSeq(c, 1, i - 1) \o SubSeq(c, i + 1, Len(c))

\* LruCache::peek: the entry, recency untouched.
LruPeek(c, id) == IF Find(c, id) = 0 THEN NoPackage ELSE c[Find(c, id)]

\* LruCache::promote (and the recency effect of LruCache::get).
LruPromoteNot(c, id) == c
LruPromote(c, id) ==
    IF Find(c, id) = 0 THEN c ELSE <<c[Find(c, id)]>> \o Without(c, Find(c, id))

\* LruCache::push on a cache created with LruCache::new(cap): replace the
\* entry of the same key, else evict the least recently used entry of a full
\* cache; the pushed entry is most recent.
LruPushEvictsNewest(cap, c, id, p) ==
    IF Find(c, id) # 0 THEN <<p>> \o Without(c, Find(c, id))
    ELSE IF Len(c) >= cap THEN <<p>> \o SubSeq(c, 2, Len(c))
    ELSE <<p>> \o c
LruPush(cap, c, id, p) ==
    IF Find(c, id) # 0 THEN <<p>> \o Without(c, Find(c, id))
    ELSE IF Len(c) >= cap THEN <<p>> \o SubSeq(c, 1, Len(c) - 1)
    ELSE <<p>> \o c

\* ------------------------------------------------------------ Arc identity
\* The live allocations: those the cache holds, those callers hold as the
\* result of their last call, and the locals of the calls in flight (a call
\* that has returned has dropped its locals).
UsedInsts ==
    {cache[i].inst : i \in 1..Len(cache)}
        \cup {result[c].pkg.inst : c \in Callers}
        \cup {cand[c].inst : c \in {d \in Callers : pc[d] # "idle"}}
        \cup {pkg[c].inst : c \in {d \in Callers : pc[d] # "idle"}}

\* Arc::new: an allocation distinct from every live one.
FreshInst ==
    CHOOSE i \in 1..(PACKAGE_CACHE_SIZE + 3 * NumCallers + 1) :
        /\ i \notin UsedInsts
        /\ \A j \in 1..(i - 1) : j \in UsedInsts

\* ------------------------------------------------------------ make_package
\* Module names in the order in which the BTreeMap of serialized modules
\* yields them; struct names; addresses.
ModuleNames == 1..NumModules
StructNames == 1..NumStructs
Addresses == 1..NumAddrs

\* TypeOrigin: a row of the package's type-origin table.
TypeOrigins ==
    [module_name : ModuleNames, struct_name : StructNames, package : Addresses]

\* The struct definitions of a module's bytecode, in definition order.
StructDefs ==
    {d \in UNION {[1..n -> StructNames] : n \in 0..NumStructs} :
        \A i, j \in 1..Len(d) : d[i] = d[j] => i = j}

\* CompiledModule: the self address and the struct definitions.
CompiledModules == [address : Addresses, struct_defs : StructDefs]
NoModule == [address |-> 0, struct_defs |-> <<>>]

\* The bytes of a serialized module: those of a compiled module, or bytes
\* that do not deserialize.
Malformed == [valid |-> FALSE, module |-> NoModule]
Bytes == [valid : {TRUE}, module : CompiledModules] \cup {Malformed}

\* Object.data as make_package reads it: a package (its type-origin table,
\* serialized module map and linkage table) or something else.
OriginTables == UNION {[1..n -> TypeOrigins] : n \in 0..MaxOrigins}
ModuleMaps == UNION {[names -> Bytes] : names \in SUBSET ModuleNames}
NotAPackageData ==
    [kind |-> "other", type_origin_table |-> <<>>, serialized_module_map |-> <<>>,
     linkage_table |-> <<>>]
PackageData ==
    [kind : {"package"}, type_origin_table : OriginTables,
     serialized_module_map : ModuleMaps, linkage_table : {<<>>}]

\* Result<Package> of make_package; an error carries what it names.
NoMaterialized ==
    [storage_id |-> 0, runtime_id |-> 0, version |-> 0, modules |-> <<>>,
     linkage |-> <<>>]
MOk(p) == [ok |-> TRUE, err |-> "", names |-> <<>>, pkg |-> p]
MErr(e, names) == [ok |-> FALSE, err |-> e, names |-> names, pkg |-> NoMaterialized]

\* store.rs:179-190: the index module -> struct -> defining package, filled
\* row by row (a later row of the same module and struct overwrites); 0 is
\* no entry.
RECURSIVE type_origins(_, _)
type_origins(rows, n) ==
    IF n = 0 THEN [k \in ModuleNames \X StructNames |-> 0]
    ELSE [type_origins(rows, n - 1) EXCEPT
            ![<<rows[n].module_name, rows[n].struct_name>>] = rows[n].package]

\* store.rs:195: type_origins.remove(name).unwrap_or_default().
OriginsOf(index, name) == [s \in StructNames |-> index[<<name, s>>]]

\* Module::read: attach the module's origins; fail with the name of a struct
\* the bytecode defines that has no origin.
ModuleRead(bytecode, origins) ==
    LET missing == {i \in 1..Len(bytecode.struct_defs) :
                      origins[bytecode.struct_defs[i]] = 0}
    IN  IF missing # {}
        THEN [ok |-> FALSE,
              struct |-> bytecode.struct_defs[CHOOSE i \in missing :
                                                \A j \in missing : i <= j],
              module |-> [bytecode |-> NoModule, origins |-> origins]]
        ELSE [ok |-> TRUE, struct |-> 0,
              module |-> [bytecode |-> bytecode, origins |-> origins]]

\* store.rs:202-205: the arm Err(struct_) of the match on Module::read.
ReadFailedNever(read) == FALSE
ReadFailed(read) == ~read.ok

\* store.rs:192-206: the loop over the serialized modules, after it has
\* passed the names up to n: the error it returned, or runtime_id (0 is
\* None) and modules so far.
RECURSIVE ReadModules(_, _, _, _)
ReadModules(id, package, index, n) ==
    IF n = 0
    THEN [ok |-> TRUE, error |-> MErr("", <<>>), runtime_id |-> 0, modules |-> <<>>]
    ELSE LET prior == ReadModules(id, package, index, n - 1)
         IN  IF ~prior.ok \/ n \notin DOMAIN package.serialized_module_map
             THEN prior
             ELSE LET bytes == package.serialized_module_map[n]
                      read == ModuleRead(bytes.module, OriginsOf(index, n))
                  IN  IF ~bytes.valid
                      THEN [prior EXCEPT !.ok = FALSE,
                                         !.error = MErr("Deserialize", <<>>)]
                      ELSE IF ReadFailed(read)
                      THEN [prior EXCEPT !.ok = FALSE,
                                         !.error = MErr("NoTypeOrigin",
                                                        <<id, n, read.struct>>)]
                      ELSE [prior EXCEPT !.runtime_id = bytes.module.address,
                                         !.modules = (n :> read.module) @@ @]

\* store.rs:208: let Some(runtime_id) = runtime_id else { EmptyPackage }.
NoRuntimeIdNever(runtime_id) == FALSE
NoRuntimeId(runtime_id) == runtime_id = 0

\* store.rs:174-225.
make_package(id, version, object) ==
    IF object.kind # "package" THEN MErr("NotAPackage", <<id>>)
    ELSE LET index == type_origins(object.type_origin_table,
                                   Len(object.type_origin_table))
             loop == ReadModules(id, object, index, NumModules)
         IN  IF ~loop.ok THEN loop.error
             ELSE IF NoRuntimeId(loop.runtime_id) THEN MErr("EmptyPackage", <<id>>)
             ELSE MOk([storage_id |-> id,
                       runtime_id |-> loop.runtime_id,
                       version |-> version,
                       modules |-> loop.modules,
                       linkage |-> [dep \in DOMAIN object.linkage_table |->
                                      object.linkage_table[dep].upgraded_id]])

\* The stores' objects carry no contents in this model: a package object
\* stands for a well-formed package of one module without structs.
Contents(object) ==
    [kind |-> object.kind,
     type_origin_table |-> <<>>,
     serialized_module_map |->
        (1 :> [valid |-> TRUE, module |-> [address |-> 1, struct_defs |-> <<>>]]),
     linkage_table |-> <<>>]

\* The cache's handle on a materialized package: its storage id and version
\* (inst is given by Arc::new).
Handle(r) ==
    IF r.ok
    THEN ROk([id |-> r.pkg.storage_id, version |-> r.pkg.version, inst |-> 0])
    ELSE RErr(r.err)

\* -------------------------------------------------------------------- Init
\* No make_package call on its own.
NoArguments == [id |-> 0, version |-> 0, object |-> NotAPackageData]
NotMade == MErr("none", <<>>)

InitWith(kind) ==
    /\ storeKind = kind
    /\ dbObjects = [i \in Ids |-> NoObject]
    /\ table = [i \in Ids |-> NoObject]
    /\ cache = <<>>
    /\ lock = 0
    /\ pc = [c \in Callers |-> "idle"]
    /\ io = [c \in Callers |-> "none"]
    /\ callId = [c \in Callers |-> 1]
    /\ cand = [c \in Callers |-> NoPackage]
    /\ resp = [c \in Callers |-> NoResp]
    /\ pkg = [c \in Callers |-> NoPackage]
    /\ result = [c \in Callers |-> NoResult]
    /\ nremote = [c \in Callers |-> 0]
    /\ persisted = [c \in Callers |-> FALSE]
    /\ given = NoArguments
    /\ made = NotMade
    /\ phase = [c \in Callers |-> "none"]

Init == \E kind \in {"db", "local"} : InitWith(kind)
InitDb == InitWith("db")
InitLocal == InitWith("local")

\* ------------------------------------------------------------- environment
\* The indexer writes the row of a new object.
Publish(id, kind) ==
    /\ storeKind = "db"
    /\ dbObjects[id] = NoObject
    /\ is_system_package(id) => kind = "package"
    /\ dbObjects' = [dbObjects EXCEPT ![id] = [id |-> id, version |-> 1, kind |-> kind]]
    /\ UNCHANGED <<phase, given, made, storeKind, table, cache, lock, callerVars>>

\* A system package is upgraded in place (same id, next version) and the
\* indexer advances its row.
Upgrade(id) ==
    /\ storeKind = "db"
    /\ dbObjects[id] # NoObject
    /\ is_system_package(id)
    /\ dbObjects[id].version < MaxVersion
    /\ dbObjects' = [dbObjects EXCEPT ![id].version = @ + 1]
    /\ UNCHANGED <<phase, given, made, storeKind, table, cache, lock, callerVars>>

\* ------------------------------------------------- PackageCache::package
\* cache.rs:58: the call starts by taking the lock.  The caller has dropped
\* what its previous call left.
Call(c, id) ==
    /\ pc[c] = "idle"
    /\ lock = 0
    /\ lock' = c
    /\ pc' = [pc EXCEPT ![c] = "lookup"]
    /\ callId' = [callId EXCEPT ![c] = id]
    /\ result' = [result EXCEPT ![c] = NoResult]
    /\ cand' = [cand EXCEPT ![c] = NoPackage]
    /\ pkg' = [pkg EXCEPT ![c] = NoPackage]
    /\ UNCHANGED <<phase, given, made, storeKind, dbObjects, table, cache, io, resp, nremote, persisted>>

\* The guard of cache.rs:58 is dropped at the end of the block (line 60).
LookupHoldsLock(c) == c
LookupRelease(c) == 0

\* cache.rs:64: the arm that returns the candidate at once.
HitReturnsSystem(id, p) == p # NoPackage /\ is_system_package(id)
HitReturns(id, p) == p # NoPackage /\ ~is_system_package(id)

\* cache.rs:59-69: get (which promotes), release, then the match on candidate.
Lookup(c) ==
    LET id == callId[c]
        p == LruPeek(cache, id)
    IN  /\ pc[c] = "lookup"
        /\ cache' = LruPromote(cache, id)
        /\ lock' = LookupRelease(c)
        /\ IF HitReturns(id, p)
           THEN /\ pc' = [pc EXCEPT ![c] = "idle"]
                /\ result' = [result EXCEPT ![c] = ROk(p)]
                /\ UNCHANGED <<io, cand>>
           ELSE /\ pc' = [pc EXCEPT ![c] = IF p # NoPackage THEN "version" ELSE "fetch"]
                /\ io' = [io EXCEPT ![c] = "query"]
                /\ cand' = [cand EXCEPT ![c] = p]
                /\ UNCHANGED result
        /\ UNCHANGED <<phase, given, made, storeKind, dbObjects, table, callId, resp, pkg, nremote, persisted>>

\* ---------------------------------------------------------- DbPackageStore
\* run_query_async(... .optional()): the row of id, none, or a database error.
DbRowUnchecked(id) == Ok(dbObjects[id])
DbRow(id) == IF dbObjects[id] = NoObject THEN Err("PackageNotFound") ELSE Ok(dbObjects[id])

\* store.rs:44-58 up to the await: the version query is answered.
DbVersion(c) ==
    /\ storeKind = "db"
    /\ pc[c] = "version"
    /\ io[c] = "query"
    /\ resp' \in {[resp EXCEPT ![c] = DbRow(callId[c])], [resp EXCEPT ![c] = Err("Db")]}
    /\ io' = [io EXCEPT ![c] = "ready"]
    /\ UNCHANGED <<phase, given, made, storeKind, dbObjects, table, cache, lock, pc, callId, cand, pkg, result, nremote, persisted>>

\* store.rs:60-74 up to the await: the fetch query is answered.
DbFetch(c) ==
    /\ storeKind = "db"
    /\ pc[c] = "fetch"
    /\ io[c] = "query"
    /\ resp' \in {[resp EXCEPT ![c] = DbRow(callId[c])], [resp EXCEPT ![c] = Err("Db")]}
    /\ io' = [io EXCEPT ![c] = "ready"]
    /\ UNCHANGED <<phase, given, made, storeKind, dbObjects, table, cache, lock, pc, callId, cand, pkg, result, nremote, persisted>>

\* ------------------------------------------------------ PackageStoreTables
\* store.rs:100-107: insert (package.id(), package), whatever is stored there.
TablesUpdate(t, object) == [t EXCEPT ![object.id] = object]

\* ----------------------------------------------------- LocalDBPackageStore
\* store.rs:128-134: persist the object if it is a package, else do nothing.
LocalUpdateAlways(t, object) == TablesUpdate(t, object)
LocalUpdateInverted(t, object) ==
    IF object.kind = "package" THEN t ELSE TablesUpdate(t, object)
LocalUpdate(t, object) ==
    IF object.kind # "package" THEN t ELSE TablesUpdate(t, object)

\* store.rs:137-144: get reads the local table; a miss goes to the full node.
LocalGet(c) ==
    /\ storeKind = "local"
    /\ pc[c] \in {"version", "fetch"}
    /\ io[c] = "query"
    /\ \/ /\ resp' = [resp EXCEPT ![c] = Err("TypedStore")]
          /\ io' = [io EXCEPT ![c] = "ready"]
       \/ /\ table[callId[c]] # NoObject
          /\ resp' = [resp EXCEPT ![c] = Ok(table[callId[c]])]
          /\ io' = [io EXCEPT ![c] = "ready"]
       \/ /\ table[callId[c]] = NoObject
          /\ io' = [io EXCEPT ![c] = "remote"]
          /\ UNCHANGED resp
    /\ UNCHANGED <<phase, given, made, storeKind, dbObjects, table, cache, lock, pc, callId, cand, pkg, result, nremote, persisted>>

\* store.rs:145-149: the full node answers get_object with the object it
\* holds under the id, or the request fails (every failure becomes
\* PackageNotFound).  The full node is outside the program: any object of
\* that id may come back.
RemoteReply(c, object) ==
    /\ storeKind = "local"
    /\ io[c] = "remote"
    /\ object.id = callId[c]
    /\ \/ /\ resp' = [resp EXCEPT ![c] = Err("PackageNotFound")]
          /\ io' = [io EXCEPT ![c] = "ready"]
       \/ /\ resp' = [resp EXCEPT ![c] = Ok(object)]
          /\ io' = [io EXCEPT ![c] = "persist"]
    /\ UNCHANGED <<phase, given, made, storeKind, dbObjects, table, cache, lock, pc, callId, cand, pkg, result>>
    /\ nremote' = [nremote EXCEPT ![c] = @ + 1]
    /\ UNCHANGED persisted

\* store.rs:150-153: self.update(&object)?, then the object is returned.
Persist(c) ==
    /\ storeKind = "local"
    /\ io[c] = "persist"
    /\ \/ /\ table' = LocalUpdate(table, resp[c].obj)
          /\ persisted' = [persisted EXCEPT ![c] = resp[c].obj.kind = "package"]
          /\ UNCHANGED resp
       \/ /\ resp[c].obj.kind = "package"
          /\ resp' = [resp EXCEPT ![c] = Err("TypedStore")]
          /\ UNCHANGED <<table, persisted>>
    /\ io' = [io EXCEPT ![c] = "ready"]
    /\ UNCHANGED <<phase, given, made, storeKind, dbObjects, cache, lock, pc, callId, cand, pkg, result, nremote>>

\* ------------------------------------------- PackageCache::package, resumed
\* cache.rs:65: the guard store.version(id).await? <= package.version.
VersionCurrentIfNewer(version, package) == version >= package.version
VersionCurrent(version, package) == version <= package.version

\* cache.rs:65-68: the version query's answer decides between the candidate
\* and a refetch; `?` returns an error.  A return here gives the candidate
\* away (moved into the result, or dropped).
VersionResume(c) ==
    /\ pc[c] = "version"
    /\ io[c] = "ready"
    /\ IF ~resp[c].ok
       THEN /\ pc' = [pc EXCEPT ![c] = "idle"]
            /\ io' = [io EXCEPT ![c] = "none"]
            /\ result' = [result EXCEPT ![c] = RErr(resp[c].err)]
       ELSE IF VersionCurrent(resp[c].obj.version, cand[c])
       THEN /\ pc' = [pc EXCEPT ![c] = "idle"]
            /\ io' = [io EXCEPT ![c] = "none"]
            /\ result' = [result EXCEPT ![c] = ROk(cand[c])]
       ELSE /\ pc' = [pc EXCEPT ![c] = "fetch"]
            /\ io' = [io EXCEPT ![c] = "query"]
            /\ UNCHANGED result
    /\ cand' = [cand EXCEPT ![c] = IF pc'[c] = "idle" THEN NoPackage ELSE @]
    /\ resp' = [resp EXCEPT ![c] = NoResp]
    /\ UNCHANGED <<phase, given, made, storeKind, dbObjects, table, cache, lock, callId, pkg>>
    /\ nremote' = [nremote EXCEPT ![c] = 0]
    /\ persisted' = [persisted EXCEPT ![c] = IF pc'[c] = "idle" THEN FALSE ELSE @]

\* The rest of fetch after its await: store.rs:76-78 (the database row's
\* version, the id asked for) and store.rs:165 (the object's own id and version).
FetchedMasksError(c) == ROk([id |-> callId[c], version |-> 1, inst |-> 0])
Fetched(c) ==
    IF ~resp[c].ok THEN RErr(resp[c].err)
    ELSE IF storeKind = "db"
    THEN Handle(make_package(callId[c], resp[c].obj.version, Contents(resp[c].obj)))
    ELSE Handle(make_package(resp[c].obj.id, resp[c].obj.version, Contents(resp[c].obj)))

\* cache.rs:71 with an error: `?` returns it.
FetchFail(c) ==
    /\ pc[c] = "fetch"
    /\ io[c] = "ready"
    /\ ~Fetched(c).ok
    /\ pc' = [pc EXCEPT ![c] = "idle"]
    /\ io' = [io EXCEPT ![c] = "none"]
    /\ result' = [result EXCEPT ![c] = RErr(Fetched(c).err)]
    /\ cand' = [cand EXCEPT ![c] = NoPackage]
    /\ resp' = [resp EXCEPT ![c] = NoResp]
    /\ UNCHANGED <<phase, given, made, storeKind, dbObjects, table, cache, lock, callId, pkg>>
    /\ nremote' = [nremote EXCEPT ![c] = 0]
    /\ persisted' = [persisted EXCEPT ![c] = FALSE]

\* cache.rs:71-78: Arc::new(package), then the lock is taken again.
FetchResume(c) ==
    /\ pc[c] = "fetch"
    /\ io[c] = "ready"
    /\ Fetched(c).ok
    /\ lock = 0
    /\ lock' = c
    /\ pkg' = [pkg EXCEPT ![c] = [Fetched(c).pkg EXCEPT !.inst = FreshInst]]
    /\ pc' = [pc EXCEPT ![c] = "insert"]
    /\ io' = [io EXCEPT ![c] = "none"]
    /\ resp' = [resp EXCEPT ![c] = NoResp]
    /\ UNCHANGED <<phase, given, made, storeKind, dbObjects, table, cache, callId, cand, result>>
    /\ nremote' = [nremote EXCEPT ![c] = 0]
    /\ persisted' = [persisted EXCEPT ![c] = FALSE]

\* cache.rs:80: the guard of the arm that keeps the resident entry.
KeepsPrevOnlyIfNewer(package, prev) == package.version < prev.version
KeepsPrev(package, prev) == package.version <= prev.version

\* cache.rs:81-88: the arm's value: the resident entry's clone, or the
\* fetched package.
InsertResultFetched(keep, prev, package) == package
InsertResult(keep, prev, package) == IF keep THEN prev ELSE package

\* cache.rs:79-90, the match on packages.peek(&id), on a cache of capacity
\* cap: keep and promote the resident entry, or push the fetched one.  The
\* LRU it leaves and the package it evaluates to.
InsertSection(cap, c, id, package) ==
    LET prev == LruPeek(c, id)
        keep == prev # NoPackage /\ KeepsPrev(package, prev)
    IN  [ cache |-> IF keep THEN LruPromote(c, id) ELSE LruPush(cap, c, id, package),
          value |-> InsertResult(keep, prev, package) ]

\* cache.rs:78-91: the insert section of a call; the guard is dropped on
\* return.
Insert(c) ==
    LET id == callId[c]
        section == InsertSection(PACKAGE_CACHE_SIZE, cache, id, pkg[c])
    IN  /\ pc[c] = "insert"
        /\ cache' = section.cache
        /\ result' = [result EXCEPT ![c] = ROk(section.value)]
        /\ lock' = 0
        /\ pc' = [pc EXCEPT ![c] = "idle"]
        /\ UNCHANGED <<phase, given, made, storeKind, dbObjects, table, io, callId, cand, resp, pkg, nremote, persisted>>

\* ------------------------------------------------------------ cancellation
\* A call can be abandoned (its future dropped) only where it is suspended.
\* Database store: at the .await of run_query_async (store.rs:52, 71), from
\* the moment the query is issued until the call is resumed with its answer.
\* Local store: at the .await of get_object (store.rs:148) only; the table
\* read and self.update are synchronous and run in the poll that follows.
SuspendedAnywhere(c) == pc[c] # "idle"
Suspended(c) ==
    IF storeKind = "db" THEN pc[c] \in {"version", "fetch"}
    ELSE \/ io[c] \in {"remote", "persist"}
         \/ io[c] = "ready" /\ resp[c] = Err("PackageNotFound")

\* The caller drops the future of package() (cache.rs:65, 71): the call's
\* locals are dropped with it and nothing is returned.
Cancel(c) ==
    /\ Suspended(c)
    /\ pc' = [pc EXCEPT ![c] = "idle"]
    /\ io' = [io EXCEPT ![c] = "none"]
    /\ cand' = [cand EXCEPT ![c] = NoPackage]
    /\ resp' = [resp EXCEPT ![c] = NoResp]
    /\ nremote' = [nremote EXCEPT ![c] = 0]
    /\ persisted' = [persisted EXCEPT ![c] = FALSE]
    /\ UNCHANGED <<phase, given, made, storeKind, dbObjects, table, cache, lock, callId, pkg, result>>

\* -------------------------------------------- PackageCache::update_store
\* Result<()>: Ok(()) carries no package.
Unit == ROk(NoPackage)

\* update_store as it would be if it also dropped the cached entry of the
\* object's id.
update_store_invalidating(c, object) ==
    /\ pc[c] = "idle"
    /\ \/ /\ storeKind = "local"
          /\ \/ /\ table' = LocalUpdate(table, object)
                /\ result' = [result EXCEPT ![c] = Unit]
             \/ /\ object.kind = "package"
                /\ result' = [result EXCEPT ![c] = RErr("TypedStore")]
                /\ UNCHANGED table
       \/ /\ storeKind = "db"
          /\ result' = [result EXCEPT ![c] = RErr("panic")]
          /\ UNCHANGED table
    /\ cache' = IF Find(cache, object.id) = 0 THEN cache
                ELSE Without(cache, Find(cache, object.id))
    /\ UNCHANGED <<phase, given, made, storeKind, dbObjects, lock, pc, io, callId, cand, resp, pkg, nremote, persisted>>

\* cache.rs:93-95 forwards to the store: LocalDBPackageStore::update
\* (store.rs:169-171, which may fail with a TypedStore error when it writes)
\* or DbPackageStore::update (store.rs:81-83: unimplemented!(), which panics
\* instead of returning).
update_store(c, object) ==
    /\ pc[c] = "idle"
    /\ \/ /\ storeKind = "local"
          /\ \/ /\ table' = LocalUpdate(table, object)
                /\ result' = [result EXCEPT ![c] = Unit]
             \/ /\ object.kind = "package"
                /\ result' = [result EXCEPT ![c] = RErr("TypedStore")]
                /\ UNCHANGED table
       \/ /\ storeKind = "db"
          /\ result' = [result EXCEPT ![c] = RErr("panic")]
          /\ UNCHANGED table
    /\ UNCHANGED <<phase, given, made, storeKind, dbObjects, cache, lock, pc, io, callId, cand, resp, pkg, nremote, persisted>>

Indexer ==
    \/ \E id \in Ids, kind \in {"package", "other"} : Publish(id, kind)
    \/ \E id \in Ids : Upgrade(id)

Package ==
    \/ \E c \in Callers, id \in Ids : Call(c, id)
    \/ \E c \in Callers : Lookup(c)
    \/ \E c \in Callers : VersionResume(c)
    \/ \E c \in Callers : FetchFail(c)
    \/ \E c \in Callers : FetchResume(c)
    \/ \E c \in Callers : Insert(c)
    \/ \E c \in Callers, object \in Objects : update_store(c, object)

DbStore ==
    \/ \E c \in Callers : DbVersion(c)
    \/ \E c \in Callers : DbFetch(c)

LocalStore ==
    \/ \E c \in Callers : LocalGet(c)
    \/ \E c \in Callers, object \in Objects : RemoteReply(c, object)
    \/ \E c \in Callers : Persist(c)

NextDb == Indexer \/ Package \/ DbStore
NextLocal == Package \/ LocalStore
Next == Indexer \/ Package \/ DbStore \/ LocalStore

\* ------------------------------------------------------- the LRU on its own
\* The mutex serializes the lock sections of all calls, so the LRU sees a
\* sequence of lookup sections and insert sections.  SpecLru runs these
\* sections, for any id and any fetched version, on a cache created with
\* capacity LruCapacity, and records in result what the section gave its call.

\* cache.rs:56-60: packages.get(&id).map(Arc::clone).
LookupSection(c, id) ==
    /\ cache' = LruPromote(cache, id)
    /\ result' = [result EXCEPT ![c] =
                     IF LruPeek(cache, id) = NoPackage THEN NoResult
                     ELSE ROk(LruPeek(cache, id))]
    /\ UNCHANGED <<phase, given, made, storeKind, dbObjects, table, lock, pc, io, callId, cand, resp,
                   pkg, nremote, persisted>>

\* cache.rs:71-90: Arc::new of a fetched package of some version, then the
\* insert section.
FetchedSection(c, id, version) ==
    LET package == [id |-> id, version |-> version, inst |-> FreshInst]
        section == InsertSection(LruCapacity, cache, id, package)
    IN  /\ cache' = section.cache
        /\ result' = [result EXCEPT ![c] = ROk(section.value)]
        /\ UNCHANGED <<phase, given, made, storeKind, dbObjects, table, lock, pc, io, callId, cand, resp,
                       pkg, nremote, persisted>>

NextLru ==
    \/ \E c \in Callers, id \in LruIds : LookupSection(c, id)
    \/ \E c \in Callers, id \in LruIds, version \in Versions :
          FetchedSection(c, id, version)

\* ------------------------------------------------- make_package on its own
\* SpecMaterialize gives make_package any id, any version and any object
\* data within the bounds, and records what it returns.
Arguments ==
    [id : Ids, version : Versions, object : PackageData \cup {NotAPackageData}]

InitMaterialize ==
    /\ storeKind = "db"
    /\ dbObjects = [i \in Ids |-> NoObject]
    /\ table = [i \in Ids |-> NoObject]
    /\ cache = <<>>
    /\ lock = 0
    /\ pc = [c \in Callers |-> "idle"]
    /\ io = [c \in Callers |-> "none"]
    /\ callId = [c \in Callers |-> 1]
    /\ cand = [c \in Callers |-> NoPackage]
    /\ resp = [c \in Callers |-> NoResp]
    /\ pkg = [c \in Callers |-> NoPackage]
    /\ result = [c \in Callers |-> NoResult]
    /\ nremote = [c \in Callers |-> 0]
    /\ persisted = [c \in Callers |-> FALSE]
    /\ given \in Arguments
    /\ made = NotMade
    /\ phase = [c \in Callers |-> "none"]

Materialize ==
    /\ made = NotMade
    /\ made' = make_package(given.id, given.version, given.object)
    /\ UNCHANGED <<phase, given, storeKind, dbObjects, table, cache, lock, callerVars>>

\* ------------------------------------------------ PackageCache::type_layout
\* SpecLayout: every caller uses the cache through type_layout only, over the
\* database store.  What the two phases do inside is ResolutionContext's
\* business; here the gather phase is a sequence of package() calls on this
\* cache, and the resolve phase is a step that produces a layout or an error.

\* The layout type_layout returns.
Layout == [ok |-> TRUE, err |-> "", pkg |-> NoPackage]

\* cache.rs:46: the `?` on what add_type_tag returned.
GatherFailedNever(r) == FALSE
GatherFailed(r) == ~r.ok /\ r # NoResult

\* cache.rs:41-42: the call starts with an empty context.
type_layout(c) ==
    /\ phase[c] = "none"
    /\ pc[c] = "idle"
    /\ phase' = [phase EXCEPT ![c] = "gather"]
    /\ result' = [result EXCEPT ![c] = NoResult]
    /\ UNCHANGED <<given, made, storeKind, dbObjects, table, cache, lock, pc, io,
                   callId, cand, resp, pkg, nremote, persisted>>

\* cache.rs:46: add_type_tag(&mut tag, self) asks this cache for a package,
\* as long as no package() call has failed.
add_type_tag(c, id) ==
    /\ phase[c] = "gather"
    /\ ~GatherFailed(result[c])
    /\ Call(c, id)

\* cache.rs:46: add_type_tag returned an error, `?` returns it.
GatherFail(c) ==
    /\ phase[c] = "gather"
    /\ pc[c] = "idle"
    /\ GatherFailed(result[c])
    /\ phase' = [phase EXCEPT ![c] = "none"]
    /\ UNCHANGED <<given, made, storeKind, dbObjects, table, cache, lock, callerVars>>

\* cache.rs:46-49: add_type_tag returned Ok, the resolve phase is next.
GatherDone(c) ==
    /\ phase[c] = "gather"
    /\ pc[c] = "idle"
    /\ ~GatherFailed(result[c])
    /\ phase' = [phase EXCEPT ![c] = "resolve"]
    /\ UNCHANGED <<given, made, storeKind, dbObjects, table, cache, lock, callerVars>>

\* cache.rs:49: resolve_type_tag(&tag) gets the tag and the context only; its
\* value is what type_layout returns.
resolve_type_tag(c) ==
    /\ phase[c] = "resolve"
    /\ phase' = [phase EXCEPT ![c] = "none"]
    /\ \E r \in {Layout, RErr("resolve")} : result' = [result EXCEPT ![c] = r]
    /\ UNCHANGED <<given, made, storeKind, dbObjects, table, cache, lock, pc, io,
                   callId, cand, resp, pkg, nremote, persisted>>

NextLayout ==
    \/ Indexer
    \/ DbStore
    \/ \E c \in Callers : type_layout(c)
    \/ \E c \in Callers, id \in Ids : add_type_tag(c, id)
    \/ \E c \in Callers : Lookup(c)
    \/ \E c \in Callers : VersionResume(c)
    \/ \E c \in Callers : FetchFail(c)
    \/ \E c \in Callers : FetchResume(c)
    \/ \E c \in Callers : Insert(c)
    \/ \E c \in Callers : GatherFail(c)
    \/ \E c \in Callers : GatherDone(c)
    \/ \E c \in Callers : resolve_type_tag(c)

\* The same program with callers that may abandon their calls.
Abandon == \E c \in Callers : Cancel(c)
NextCancel == Indexer \/ Package \/ DbStore \/ LocalStore \/ Abandon

Spec == Init /\ [][Next]_vars
SpecDb == InitDb /\ [][NextDb]_vars
SpecLocal == InitLocal /\ [][NextLocal]_vars
SpecCancel == Init /\ [][NextCancel]_vars
SpecLru == InitDb /\ [][NextLru]_vars
SpecMaterialize == InitMaterialize /\ [][Materialize]_vars
SpecLayout == InitDb /\ [][NextLayout]_vars

\* ================================================================== claims
\* A package() call of caller c returns in this step.
Returned(c) == pc[c] # "idle" /\ pc'[c] = "idle"

\* The caller's store operation moves on in this step.
IoMoves(c) == pc'[c] # pc[c] \/ io'[c] # io[c]

\* The store holds nothing under id.
Absent(id) ==
    IF storeKind = "db" THEN dbObjects[id] = NoObject ELSE table[id] = NoObject

\* ---------------------------------------------------------------------- C1
\* C1 (as claimed): once a package(id) call has returned version V, no call
\* that returns later returns a version lower than V for the same id.
MonotonicRead ==
    [][\A c \in Callers, d \in Callers :
         ( /\ Returned(c)
           /\ result'[c].ok
           /\ d # c
           /\ pc[d] = "idle"
           /\ result[d].ok
           /\ result[d].pkg.id = callId[c] )
         => result'[c].pkg.version >= result[d].pkg.version]_vars

\* ---------------------------------------------------------------------- C2
\* C2: when a call reaches its insert section with a fetched version V while
\* the cache holds V' >= V under the id, the call returns the cached package
\* and the cache still holds it; and no step replaces the package resident
\* under an id by another one unless that one has a strictly higher version.
NoRegression ==
    [][ /\ \A c \in Callers :
             LET prev == LruPeek(cache, callId[c])
             IN  ( /\ pc[c] = "insert"
                   /\ pc'[c] = "idle"
                   /\ prev # NoPackage
                   /\ prev.version >= pkg[c].version )
                 => ( /\ result'[c] = ROk(prev)
                      /\ LruPeek(cache', callId[c]) = prev )
        /\ cache' # cache =>
             \A id \in Ids :
               LET prev == LruPeek(cache, id)
                   now == LruPeek(cache', id)
               IN  (prev # NoPackage /\ now # NoPackage /\ now # prev)
                   => now.version > prev.version ]_vars

\* A call that fetched a lower version than the resident one has returned the
\* resident package, which the cache still holds.
WitnessNoRegression ==
    \E c \in Callers :
        /\ pc[c] = "idle"
        /\ result[c].ok
        /\ pkg[c] # NoPackage
        /\ pkg[c].version < result[c].pkg.version
        /\ LruPeek(cache, callId[c]) = result[c].pkg

\* ---------------------------------------------------------------------- C3
\* C3: when a call d has fetched version V, inserted its package and
\* returned, and a concurrent call c that fetched the same version V reaches
\* its insert section while d's package is still resident, c returns d's
\* package instance, the cache keeps exactly that one entry for the id, and
\* c's own materialization is not in the cache.
Convergence ==
    [][\A c \in Callers, d \in Callers :
         ( /\ c # d
           /\ pc[c] = "insert"
           /\ pc'[c] = "idle"
           /\ pc[d] = "idle"
           /\ callId[d] = callId[c]
           /\ pkg[d] # NoPackage
           /\ result[d] = ROk(pkg[d])
           /\ pkg[d].version = pkg[c].version
           /\ LruPeek(cache, callId[c]) = pkg[d] )
         => ( /\ result'[c] = result[d]
              /\ LruPeek(cache', callId[c]) = pkg[d]
              /\ Cardinality({i \in 1..Len(cache') : cache'[i].id = callId[c]}) = 1
              /\ \A i \in 1..Len(cache') : cache'[i] # pkg[c] )]_vars

\* Two first-time calls for one (non-system) id both fetched, materialized
\* two distinct packages of the same version, and hold the same instance,
\* which is the resident one.
WitnessConvergence ==
    \E c \in Callers, d \in Callers :
        /\ c # d
        /\ pc[c] = "idle" /\ pc[d] = "idle"
        /\ callId[c] = callId[d]
        /\ ~is_system_package(callId[c])
        /\ cand[c] = NoPackage /\ cand[d] = NoPackage
        /\ pkg[c] # NoPackage /\ pkg[d] # NoPackage
        /\ pkg[c] # pkg[d]
        /\ pkg[c].version = pkg[d].version
        /\ result[c].ok
        /\ result[c] = result[d]
        /\ LruPeek(cache, callId[c]) = result[c].pkg

\* ---------------------------------------------------------------------- C4
\* C4: for a non-system id, a successful call leaves the package it returns
\* resident under the id, and a call that finds a package resident returns
\* that very instance straight from its lookup, without entering
\* store.version or store.fetch.
SequentialHit ==
    [][\A c \in Callers :
         ~is_system_package(callId[c]) =>
           /\ ( /\ pc[c] = "lookup"
                /\ pc'[c] # "lookup"
                /\ LruPeek(cache, callId[c]) # NoPackage )
              => ( /\ pc'[c] = "idle"
                   /\ io'[c] = "none"
                   /\ pkg'[c] = NoPackage
                   /\ result'[c] = ROk(LruPeek(cache, callId[c])) )
           /\ (Returned(c) /\ result'[c].ok)
              => LruPeek(cache', callId[c]) = result'[c].pkg ]_vars

\* A first call fetched and inserted a non-system package; a second call hit
\* it (no fetch of its own) and holds the identical instance.
WitnessSequentialHit ==
    \E c \in Callers, d \in Callers :
        /\ c # d
        /\ pc[c] = "idle" /\ pc[d] = "idle"
        /\ callId[c] = callId[d]
        /\ ~is_system_package(callId[c])
        /\ result[d] = ROk(pkg[d])
        /\ pkg[d] # NoPackage
        /\ pkg[c] = NoPackage
        /\ result[c] = result[d]
        /\ LruPeek(cache, callId[c]) = result[c].pkg

\* ---------------------------------------------------------------------- C5
\* C5: for a system id cached at version V, a call whose version query
\* reports V' > V goes on to fetch; the fetch reads the object the store
\* holds at that moment; and when the fetched version is higher than V the
\* call returns a package of at least that version which the cache then
\* holds under the id: the fetched package itself when the resident entry is
\* still the stale one (or gone).
LazyInvalidation ==
    [][\A c \in Callers :
         (is_system_package(callId[c]) /\ cand[c] # NoPackage) =>
           /\ ( /\ pc[c] = "version"
                /\ io[c] = "ready"
                /\ IoMoves(c)
                /\ resp[c].ok
                /\ resp[c].obj.version > cand[c].version )
              => (pc'[c] = "fetch" /\ io'[c] = "query")
           /\ ( /\ pc[c] = "fetch"
                /\ io[c] = "query"
                /\ io'[c] = "ready"
                /\ resp'[c].ok )
              => resp'[c].obj = IF storeKind = "db" THEN dbObjects[callId[c]]
                                ELSE table[callId[c]]
           /\ ( /\ pc[c] = "insert"
                /\ pc'[c] = "idle"
                /\ pkg[c].version > cand[c].version )
              => ( /\ result'[c].ok
                   /\ result'[c].pkg.version >= pkg[c].version
                   /\ LruPeek(cache', callId[c]) = result'[c].pkg
                   /\ LruPeek(cache, callId[c]) \in {NoPackage, cand[c]}
                      => result'[c].pkg = pkg[c] ) ]_vars

\* A call found a system package cached, refetched a higher version and
\* returned it; the cache holds it.
WitnessLazyInvalidation ==
    \E c \in Callers :
        /\ pc[c] = "idle"
        /\ is_system_package(callId[c])
        /\ cand[c] # NoPackage
        /\ pkg[c].version > cand[c].version
        /\ result[c] = ROk(pkg[c])
        /\ LruPeek(cache, callId[c]) = pkg[c]

\* ---------------------------------------------------------------------- C6
\* C6 (as claimed): in every state in which some call awaits store I/O, no
\* caller at all holds the mutex.
LockFreeDuringAnyIo == (\E c \in Callers : io[c] # "none") => lock = 0

\* C6 (amended): a caller that awaits store I/O (the version or fetch query,
\* the local table read, the remote fetch, the persist) does not hold the
\* mutex.
LockNotHeldAcrossIo == \A c \in Callers : io[c] # "none" => lock # c

\* One caller awaits store I/O while another is inside a lock section.
WitnessLockNotHeldAcrossIo ==
    \E c \in Callers, d \in Callers : c # d /\ io[c] # "none" /\ lock = d

\* ---------------------------------------------------------------------- C7
\* C7: an id the store does not hold is not cached and on its way into the
\* cache; a store read that is answered for such an id (database: no row;
\* local store: table miss, then the remote fetch fails) yields
\* PackageNotFound; and the call then returns PackageNotFound and leaves the
\* cache as it was.
NotFoundForAbsent ==
    [][ /\ \A id \in Ids :
             Absent(id) =>
               /\ Find(cache, id) = 0
               /\ \A c \in Callers : ~(pc[c] = "insert" /\ callId[c] = id)
        /\ \A c \in Callers :
             /\ ( /\ storeKind = "db"
                  /\ io[c] = "query"
                  /\ io'[c] = "ready"
                  /\ dbObjects[callId[c]] = NoObject
                  /\ resp'[c] # Err("Db") )
                => resp'[c] = Err("PackageNotFound")
             /\ ( /\ storeKind = "local"
                  /\ io[c] = "remote"
                  /\ io'[c] # "remote"
                  /\ ~resp'[c].ok )
                => resp'[c] = Err("PackageNotFound")
             /\ ( /\ io[c] = "ready"
                  /\ resp[c] = Err("PackageNotFound")
                  /\ IoMoves(c) )
                => ( /\ pc'[c] = "idle"
                     /\ result'[c] = RErr("PackageNotFound")
                     /\ cache' = cache ) ]_vars

\* A call for an id the store lacks has failed with PackageNotFound and the
\* cache holds nothing under the id.
WitnessNotFoundForAbsent ==
    \E c \in Callers :
        /\ pc[c] = "idle"
        /\ result[c] = RErr("PackageNotFound")
        /\ Absent(callId[c])
        /\ Find(cache, callId[c]) = 0

\* ---------------------------------------------------------------------- C8
\* C8 (as claimed): whatever object the remote fetch of a missing get(id)
\* returns, once that get has returned it the local table holds id, so that
\* a subsequent get(id) makes no remote fetch.
RemoteFetchOnlyOnce ==
    [][\A c \in Callers :
         (io[c] = "persist" /\ io'[c] = "ready" /\ resp'[c].ok)
         => table'[callId[c]] # NoObject]_vars

\* C8 (amended): a get(id) makes no remote fetch when the table holds id and
\* exactly one when it does not; what the remote returned is persisted
\* exactly when it is a package, and the table never loses an id: so gets
\* after a fetched package make no remote fetch, and gets after a fetched
\* non-package fetch again.
RemoteFetchPerMiss ==
    [][ /\ \A c \in Callers :
             LET id == callId[c]
             IN  /\ (io[c] = "query" /\ io'[c] # "query" /\ table[id] # NoObject)
                    => (io'[c] = "ready" /\ nremote'[c] = 0)
                 /\ ( /\ io[c] = "query"
                      /\ io'[c] # "query"
                      /\ table[id] = NoObject
                      /\ resp'[c] # Err("TypedStore") )
                    => io'[c] = "remote"
                 /\ (io[c] = "remote" /\ io'[c] # "remote")
                    => (nremote'[c] = 1 /\ io'[c] \in {"persist", "ready"})
                 /\ (io[c] = "persist" /\ io'[c] # "persist")
                    => ( /\ io'[c] = "ready"
                         /\ nremote'[c] = 1
                         /\ resp'[c].ok =>
                              table'[id] = IF resp[c].obj.kind = "package"
                                           THEN resp[c].obj ELSE table[id] )
        /\ \A id \in Ids : table[id] # NoObject => table'[id] # NoObject ]_vars

\* One get missed, fetched a package remotely (one fetch) and persisted it;
\* another get of the same id was served from the table with no fetch.
WitnessRemoteFetchPerMiss ==
    \E c \in Callers, d \in Callers :
        /\ c # d
        /\ callId[c] = callId[d]
        /\ io[d] = "ready" /\ nremote[d] = 1
        /\ resp[d].ok /\ resp[d].obj.kind = "package"
        /\ io[c] = "ready" /\ nremote[c] = 0
        /\ resp[c] = resp[d]
        /\ table[callId[c]] = resp[d].obj

\* ---------------------------------------------------------------------- C9
\* C9 (as claimed): the version the local store reports for an id it holds
\* never decreases, whatever update, get, version or fetch is performed.
VersionNonDecreasing ==
    [][\A id \in Ids :
         table[id] # NoObject => table'[id].version >= table[id].version]_vars

\* --------------------------------------------------------------------- C10
\* C10: an update_store call (the one step that is no step of a package()
\* call, of a store operation or of the indexer) leaves the LRU (ids,
\* instances, order) as it was, for every object; and a lookup of a
\* non-system id returns the resident package even when the local table holds
\* another version of it.
UpdateStoreFrame ==
    [][ /\ (pc' = pc /\ io' = io /\ dbObjects' = dbObjects) => cache' = cache
        /\ \A c \in Callers :
             LET id == callId[c]
             IN  ( /\ pc[c] = "lookup"
                   /\ pc'[c] # "lookup"
                   /\ ~is_system_package(id)
                   /\ LruPeek(cache, id) # NoPackage
                   /\ table[id] # NoObject
                   /\ table[id].version # LruPeek(cache, id).version )
                 => result'[c] = ROk(LruPeek(cache, id)) ]_vars

\* update_store has put another version of a cached non-system package into
\* the local table, and a call still got the cached package from its lookup.
WitnessUpdateStoreFrame ==
    \E c \in Callers, d \in Callers :
        /\ storeKind = "local"
        /\ c # d
        /\ pc[c] = "idle"
        /\ ~is_system_package(callId[c])
        /\ result[c].ok
        /\ result[c].pkg.id = callId[c]
        /\ pkg[c] = NoPackage
        /\ LruPeek(cache, callId[c]) = result[c].pkg
        /\ result[d] = Unit
        /\ table[callId[c]] # NoObject
        /\ table[callId[c]].version # result[c].pkg.version

\* --------------------------------------------------------------------- C11
\* C11: a step in which a caller abandons its call (the call ends with
\* nothing returned) is taken by a call that holds no lock, has materialized
\* and inserted nothing and has written nothing to the local table; the step
\* leaves the lock, the LRU, the local table, the database and every other
\* caller's call exactly as they were, so that every other call goes on from
\* the state it would be in had the abandoned call not fetched.
AbandonLeavesCacheConsistent ==
    [][\A c \in Callers :
         (pc[c] # "idle" /\ pc'[c] = "idle" /\ result'[c] = NoResult)
         => ( /\ lock # c
              /\ pkg[c] = NoPackage
              /\ ~persisted[c]
              /\ <<lock, cache, table, dbObjects>>' = <<lock, cache, table, dbObjects>>
              /\ \A d \in Callers \ {c} :
                   <<pc[d], io[d], callId[d], cand[d], resp[d], pkg[d], result[d]>>'
                     = <<pc[d], io[d], callId[d], cand[d], resp[d], pkg[d], result[d]>> )]_vars

\* One caller has abandoned a call for a non-system id (idle with nothing
\* returned) and another caller's call for the same id has completed with the
\* package that the cache holds.
WitnessAbandonLeavesCacheConsistent ==
    \E c \in Callers, d \in Callers :
        /\ c # d
        /\ pc[c] = "idle" /\ result[c] = NoResult
        /\ ~is_system_package(callId[c])
        /\ pc[d] = "idle" /\ callId[d] = callId[c]
        /\ result[d].ok
        /\ result[d] = ROk(pkg[d])
        /\ LruPeek(cache, callId[c]) = pkg[d]

\* --------------------------------------------------------------------- C12
\* C12 (as claimed): no update_store call ends in a panic: whatever the store
\* and the object, the caller gets Ok(()) or an error value back.
UpdateStoreReturns == \A c \in Callers : result[c] # RErr("panic")

\* --------------------------------------------------------------------- C13
\* The ids the LRU holds.
CacheIds(c) == {c[i].id : i \in 1..Len(c)}

\* C13: after every lock section the LRU holds at most its capacity of
\* entries, one per id; when a section brings in an id that was not resident,
\* the new entry is the most recent one and the others are what was resident,
\* in the same order, less exactly the least recently used entry if the cache
\* was full; a section that brings in no new id (a promotion, or the
\* replacement of the entry of the same id) evicts nothing.
CapacityBoundedLru ==
    [][ /\ Len(cache') <= LruCapacity
        /\ Cardinality(CacheIds(cache')) = Len(cache')
        /\ CacheIds(cache') # CacheIds(cache) =>
              /\ cache'[1].id \notin CacheIds(cache)
              /\ SubSeq(cache', 2, Len(cache')) =
                    IF Len(cache) = LruCapacity
                    THEN SubSeq(cache, 1, Len(cache) - 1)
                    ELSE cache
        /\ CacheIds(cache') = CacheIds(cache) =>
              \A i \in 2..Len(cache') : \E j \in 1..Len(cache) : cache'[i] = cache[j]
      ]_vars

\* The cache is full; the package one call got is no longer resident (its id
\* was the least recently used when another id came in) and the package
\* another call got is the most recent entry.
WitnessCapacityBoundedLru ==
    \E c \in Callers, d \in Callers :
        /\ c # d
        /\ Len(cache) = LruCapacity
        /\ result[c].ok
        /\ Find(cache, result[c].pkg.id) = 0
        /\ result[d] = ROk(cache[1])

\* --------------------------------------------------------------------- C14
\* C14: a Package that make_package returns has at least one module; given
\* an object that is not a package it returns NotAPackage(id), and given a
\* package with no serialized module it returns EmptyPackage(id).
MaterializedHasModules ==
    made # NotMade =>
      /\ made.ok => DOMAIN made.pkg.modules # {}
      /\ given.object.kind # "package" => made = MErr("NotAPackage", <<given.id>>)
      /\ ( /\ given.object.kind = "package"
           /\ DOMAIN given.object.serialized_module_map = {} )
         => made = MErr("EmptyPackage", <<given.id>>)

\* make_package was given a package with type origins but no module, and
\* returned EmptyPackage.
WitnessMaterializedHasModules ==
    /\ given.object.kind = "package"
    /\ Len(given.object.type_origin_table) > 0
    /\ DOMAIN given.object.serialized_module_map = {}
    /\ made = MErr("EmptyPackage", <<given.id>>)

\* --------------------------------------------------------------------- C15
\* C15 (as claimed): the runtime_id of a Package that make_package returns is
\* the self address of every one of its modules.
RuntimeIdOfEveryModule ==
    made.ok =>
      \A n \in DOMAIN made.pkg.modules :
         made.pkg.modules[n].bytecode.address = made.pkg.runtime_id

\* --------------------------------------------------------------------- C16
\* The (module, struct, defining package) triples an object's type-origin
\* table encodes, and those read back from the modules of a Package.
EncodedOrigins(data) ==
    {<<data.type_origin_table[i].module_name,
       data.type_origin_table[i].struct_name,
       data.type_origin_table[i].package>> : i \in 1..Len(data.type_origin_table)}
ReadBackOrigins(package) ==
    {t \in ModuleNames \X StructNames \X Addresses :
        /\ t[1] \in DOMAIN package.modules
        /\ package.modules[t[1]].origins[t[2]] = t[3]}

\* C16 (as claimed): a Package that make_package returns has exactly the
\* module names of the object's serialized module map, and the type-origin
\* entries of its modules are exactly the triples of the object's type-origin
\* table.
MaterializeRoundTrip ==
    made.ok =>
      /\ DOMAIN made.pkg.modules = DOMAIN given.object.serialized_module_map
      /\ ReadBackOrigins(made.pkg) = EncodedOrigins(given.object)

\* --------------------------------------------------------------------- C17
\* Module n of the object deserializes and defines a struct for which the
\* type-origin table has no row under n.
OriginLess(data, n) ==
    {s \in StructNames :
        /\ n \in DOMAIN data.serialized_module_map
        /\ data.serialized_module_map[n].valid
        /\ \E i \in 1..Len(data.serialized_module_map[n].module.struct_defs) :
              data.serialized_module_map[n].module.struct_defs[i] = s
        /\ \A t \in EncodedOrigins(data) : ~(t[1] = n /\ t[2] = s)}

\* C17: given a package in which some module defines a struct without a
\* type-origin row, make_package returns no Package; and when the modules
\* before the first such module (in name order) deserialize, the error is
\* NoTypeOrigin naming the id, that module and a struct of it without a row.
MissingOriginIsAnError ==
    (made # NotMade /\ given.object.kind = "package") =>
      \A n \in ModuleNames :
        OriginLess(given.object, n) # {} =>
          /\ ~made.ok
          /\ ( \A k \in 1..(n - 1) :
                 k \in DOMAIN given.object.serialized_module_map =>
                   /\ given.object.serialized_module_map[k].valid
                   /\ OriginLess(given.object, k) = {} )
             => ( /\ made.err = "NoTypeOrigin"
                  /\ Len(made.names) = 3
                  /\ made.names[1] = given.id
                  /\ made.names[2] = n
                  /\ made.names[3] \in OriginLess(given.object, n) )

\* make_package was given a package whose first module has its origins and
\* whose second module defines a struct that only the first has a row for,
\* and returned NoTypeOrigin naming the second module.
WitnessMissingOriginIsAnError ==
    /\ made.err = "NoTypeOrigin"
    /\ made.names[2] = 2
    /\ 1 \in DOMAIN given.object.serialized_module_map
    /\ Len(given.object.serialized_module_map[1].module.struct_defs) > 0
    /\ Len(given.object.type_origin_table) > 0
    /\ made.names[3] \in OriginLess(given.object, 2)

\* --------------------------------------------------------------------- C18
\* C18: in the local store, when the remote fetch of a get returned an object
\* that is not a package, the get returns that object and leaves the table
\* as it was; a fetch that got such an object fails with NotAPackage and
\* caches nothing; an update_store with an object that is not a package
\* returns Ok(()) and leaves the table as it was; and no step ever puts
\* anything but a package into the table.
NonPackageNotPersisted ==
    [][ /\ \A c \in Callers :
             /\ ( /\ io[c] = "persist"
                  /\ io'[c] # "persist"
                  /\ resp[c].obj.kind # "package" )
                => ( /\ table' = table
                     /\ resp'[c] = resp[c]
                     /\ io'[c] = "ready" )
             /\ ( /\ pc[c] = "fetch"
                  /\ io[c] = "ready"
                  /\ pc'[c] # "fetch"
                  /\ resp[c].ok
                  /\ resp[c].obj.kind # "package" )
                => ( /\ pc'[c] = "idle"
                     /\ result'[c] = RErr("NotAPackage")
                     /\ cache' = cache )
        /\ (pc' = pc /\ io' = io) =>
             \A c \in Callers, object \in Objects :
                (object.kind # "package" /\ update_store(c, object))
                => (table' = table /\ result'[c] = Unit)
        /\ \A id \in Ids :
             table'[id] # table[id] => table'[id].kind = "package" ]_vars

\* A call failed with NotAPackage (its get fetched a non-package remotely),
\* an update_store returned Ok(()), and the table still holds nothing.
WitnessNonPackageNotPersisted ==
    \E c \in Callers, d \in Callers :
        /\ storeKind = "local"
        /\ c # d
        /\ result[c] = RErr("NotAPackage")
        /\ result[d] = Unit
        /\ \A id \in Ids : table[id] = NoObject

\* --------------------------------------------------------------------- C19
\* C19: every lock section that gives its call a package leaves that package
\* as the most recent entry of the LRU: a lookup that hits, an insert section
\* that keeps the resident entry, an insert section that pushes; and in a
\* full cache that entry is not the least recently used one.
ReturnedIsMostRecent ==
    [][ /\ \A c \in Callers, id \in LruIds :
             (LookupSection(c, id) /\ LruPeek(cache, id) # NoPackage)
             => ( /\ cache'[1] = LruPeek(cache, id)
                  /\ result'[c] = ROk(cache'[1])
                  /\ cache'[Len(cache')].id = id => Len(cache') < LruCapacity )
        /\ \A c \in Callers, id \in LruIds, version \in Versions :
             FetchedSection(c, id, version)
             => ( /\ cache'[1].id = id
                  /\ result'[c] = ROk(cache'[1])
                  /\ cache'[Len(cache')].id = id => Len(cache') < LruCapacity )
      ]_vars

\* The cache is full, and the package a call got is the most recent entry
\* although it was allocated before the other entry: it has been promoted.
WitnessReturnedIsMostRecent ==
    \E c \in Callers :
        /\ Len(cache) = LruCapacity
        /\ result[c] = ROk(cache[1])
        /\ cache[1].inst < cache[Len(cache)].inst

\* --------------------------------------------------------------------- C20
\* C20: type_layout runs the gather phase, then the resolve phase.  A caller
\* touches the cache, the lock or the store only while it is in the gather
\* phase; the resolve phase starts only from a gather phase that is not
\* awaiting anything and has not failed, and it moves nothing but the
\* caller's phase and return value; a gather phase that has failed makes no
\* further access, never enters the resolve phase, and type_layout returns
\* the error it failed with.
LayoutPhasesInOrder ==
    [][ \A c \in Callers :
          /\ (pc'[c] # pc[c] \/ io'[c] # io[c] \/ lock' = c \/ lock = c)
             => (phase[c] = "gather" /\ phase'[c] = "gather")
          /\ phase'[c] # phase[c] =>
                /\ cache' = cache
                /\ lock' = lock
                /\ dbObjects' = dbObjects
                /\ table' = table
                /\ phase[c] = "none" => phase'[c] = "gather"
                /\ phase[c] = "resolve" => phase'[c] = "none"
                /\ phase'[c] = "resolve" =>
                      /\ phase[c] = "gather"
                      /\ pc[c] = "idle"
                      /\ io[c] = "none"
                      /\ result[c].ok \/ result[c] = NoResult
          /\ (phase[c] = "gather" /\ pc[c] = "idle" /\ ~result[c].ok
                                  /\ result[c] # NoResult)
             => /\ pc'[c] = "idle"
                /\ phase'[c] # "resolve"
                /\ result'[c] = result[c] ]_vars

\* One caller is in the resolve phase after a gather phase that got a package
\* from the cache, while the type_layout of another has returned the
\* PackageNotFound its gather phase failed with.
WitnessLayoutPhasesInOrder ==
    \E c \in Callers, d \in Callers :
        /\ phase[c] = "resolve"
        /\ result[c].ok
        /\ result[c].pkg # NoPackage
        /\ phase[d] = "none"
        /\ result[d] = RErr("PackageNotFound")

\* --------------------------------------------------------------------- C21
\* The entries of the LRU, whatever their recency order.
Entries(c) == {c[i] : i \in 1..Len(c)}

\* C21: a package() call whose version query or fetch came back with an
\* error (a store error, or an object that is not a package) ends at that
\* step: it returns that very error, issues no further query, does not take
\* the lock and leaves the LRU as it is, even when the package asked for is
\* cached; and the only step that inserts, replaces or removes an entry is
\* the insert section of a call, which returns a package.
FailedCallLeavesCache ==
    [][ /\ \A c \in Callers :
             (io[c] = "ready" /\ pc'[c] # pc[c]) =>
                /\ (pc[c] \in {"version", "fetch"} /\ ~resp[c].ok)
                   => ( /\ pc'[c] = "idle"
                        /\ io'[c] = "none"
                        /\ result'[c] = RErr(resp[c].err)
                        /\ cache' = cache
                        /\ lock' = lock )
                /\ (pc[c] = "fetch" /\ resp[c].ok /\ resp[c].obj.kind # "package")
                   => ( /\ pc'[c] = "idle"
                        /\ io'[c] = "none"
                        /\ result'[c] = RErr("NotAPackage")
                        /\ cache' = cache
                        /\ lock' = lock )
        /\ cache' # cache =>
             ( Entries(cache') # Entries(cache) =>
                 \E c \in Callers : /\ pc[c] = "insert"
                                     /\ pc'[c] = "idle"
                                     /\ result'[c].ok
                                     /\ result'[c].pkg \in Entries(cache') )
        /\ \A c \in Callers :
             ( /\ pc[c] # "idle"
               /\ result'[c] # result[c]
               /\ ~result'[c].ok )
             => ( /\ pc[c] \in {"version", "fetch"}
                  /\ pc'[c] = "idle"
                  /\ cache' = cache ) ]_vars

\* Both callers' last calls for the system package have returned a database
\* error while that package is in the cache at the version of its database
\* row, which was never upgraded.  The caller whose earlier call inserted the
\* entry found it at the lookup of its last call, so what failed there is
\* the version query.
WitnessFailedCallLeavesCache ==
    \E id \in Ids :
        /\ is_system_package(id)
        /\ storeKind = "db"
        /\ dbObjects[id].version = 1
        /\ LruPeek(cache, id) # NoPackage
        /\ LruPeek(cache, id).version = 1
        /\ \A c \in Callers :
              /\ pc[c] = "idle"
              /\ callId[c] = id
              /\ result[c] = RErr("Db")
====
